---------------------------- MODULE Spec2Model ----------------------------
(***************************************************************************)
(* A model of quickstart-tag-differ: the doc-tag scanner (processFile,     *)
(* extractDocTags), the differ (createDocTagDiff, findDocTagDiffs) and the *)
(* action's entry point run(), all of src/src/utils.ts.                    *)
(*                                                                         *)
(* Text is modelled as sequences of characters (one-character strings) so  *)
(* that path.extname and String.split are computed, not assumed.  A line   *)
(* of a scanned file is a sequence of tokens: a token is either one        *)
(* character of ordinary text or one whole marker "[START n]" / "[END n]". *)
(***************************************************************************)
EXTENDS Integers, Sequences, FiniteSets

VARIABLES
    \* findDocTagDiffs: its arguments and what the call produced
    oldTags, newTags, options, result, dpc,
    \* processFile: the file's lines and what the call produced
    fileLines, scanResult, spc,
    \* run(): the action's inputs, its position, and what it has done so far
    extensionsInput, baseRefInput, pullRequest, issue, currentFiles, baseFiles,
    head, pc, currentTags, baseRefTags, docTagDiffs, failed, trace, reported

diffVars == <<oldTags, newTags, options, result, dpc>>
scanVars == <<fileLines, scanResult, spc>>
runVars  == <<extensionsInput, baseRefInput, pullRequest, issue, currentFiles,
              baseFiles, head, pc, currentTags, baseRefTags, docTagDiffs, failed,
              trace, reported>>
vars == <<diffVars, scanVars, runVars>>

----------------------------------------------------------------------------
(* Bounds of the model. *)

\* the longest tag collection handed to findDocTagDiffs (each side)
MaxTags == 2

\* the same, where every choice of options is tried
MaxGateTags == 2

\* the most lines of a file handed to processFile
MaxLines == 4

\* the most files of a working tree
MaxFiles == 2

\* the most pages of comments listComments answers with
MaxPages == 2

----------------------------------------------------------------------------
(* Generic helpers. *)

Min(S) == CHOOSE m \in S : \A n \in S : m <= n
Max(S) == CHOOSE m \in S : \A n \in S : m >= n

\* all sequences over S of length 0..n
SeqsUpTo(S, n) == UNION {[1..k -> S] : k \in 0..n}

\* Array.prototype.find as an index: the first of the indices that satisfy
\* the predicate, or 0 when there is none (find returns undefined)
FirstIndex(hits) == IF hits = {} THEN 0 ELSE Min(hits)

----------------------------------------------------------------------------
(* path.extname (posix): the text from the last "." of the last path       *)
(* segment to the end; empty when there is no "." in it, when that "." is  *)
(* the segment's first character, or when the segment is "..".  Trailing   *)
(* separators are skipped: the last segment of "a.js/" is "a.js".          *)

Basename(p) ==
    LET solid == {i \in 1..Len(p) : p[i] # "/"}
    IN  IF solid = {} THEN <<>>
        ELSE LET slashes == {i \in 1..Max(solid) : p[i] = "/"}
             IN  SubSeq(p, IF slashes = {} THEN 1 ELSE Max(slashes) + 1, Max(solid))

ExtName(p) ==
    LET base == Basename(p)
        dots == {i \in 1..Len(base) : base[i] = "."}
    IN  IF dots = {} THEN <<>>
        ELSE IF Max(dots) = 1 THEN <<>>
        ELSE IF base = <<".", ".">> THEN <<>>
        ELSE SubSeq(base, Max(dots), Len(base))

----------------------------------------------------------------------------
(* The differ: createDocTagDiff and findDocTagDiffs.                       *)

DiffTypes   == {"added", "removed", "changed"}
ChangeTypes == {"file_path", "line_number", "code_contents"}

\* the options argument; given = FALSE is a call that passes no options
\* object (the parameter is undefined)
OptionsOf(types, changeTypes) ==
    [given |-> TRUE, includedTypes |-> types, includedChangeTypes |-> changeTypes]
NoOptions      == [given |-> FALSE, includedTypes |-> {}, includedChangeTypes |-> {}]
DefaultOptions == OptionsOf(DiffTypes, ChangeTypes)
AllOptions     == {OptionsOf(t, c) : t \in SUBSET DiffTypes, c \in SUBSET ChangeTypes}

\* diff.createTwoFilesPatch(oldFileName, newFileName, oldStr, newStr): the
\* patch is the library's; it is kept as the four values it is made from
CreateTwoFilesPatch(oldFileName, newFileName, oldStr, newStr) ==
    [oldFileName |-> oldFileName, newFileName |-> newFileName,
     oldStr |-> oldStr, newStr |-> newStr]

ChangedDiff(newTag, changeType) ==
    [filePath |-> newTag.filePath, tagName |-> newTag.tagName,
     codeStartLine |-> newTag.codeStartLine, codeEndLine |-> newTag.codeEndLine,
     changeType |-> changeType, type |-> "changed"]

ContentsDiff(oldTag, newTag) ==
    [filePath |-> newTag.filePath, tagName |-> newTag.tagName,
     changeType |-> "code_contents",
     codeStartLine |-> newTag.codeStartLine, codeEndLine |-> newTag.codeEndLine,
     codeContentsDiff |-> CreateTwoFilesPatch(oldTag.filePath, newTag.filePath,
                                              oldTag.codeContents, newTag.codeContents),
     type |-> "changed"]

\* a plausible slip: the three checks chained with else-if, so that only the
\* first differing field is reported
CreateDocTagDiffElseIf(oldTag, newTag, opts) ==
    IF oldTag.filePath # newTag.filePath /\ opts.includeChangedTags
       /\ opts.includeFilePathChanges
    THEN <<ChangedDiff(newTag, "file_path")>>
    ELSE IF (oldTag.codeStartLine # newTag.codeStartLine
             \/ oldTag.codeEndLine # newTag.codeEndLine)
            /\ opts.includeChangedTags /\ opts.includeLineNumberChanges
    THEN <<ChangedDiff(newTag, "line_number")>>
    ELSE IF oldTag.codeContents # newTag.codeContents
            /\ opts.includeChangedTags /\ opts.includeCodeContentsChanges
    THEN <<ContentsDiff(oldTag, newTag)>>
    ELSE <<>>

CreateDocTagDiff(oldTag, newTag, opts) ==
    (IF oldTag.filePath # newTag.filePath /\ opts.includeChangedTags
        /\ opts.includeFilePathChanges
     THEN <<ChangedDiff(newTag, "file_path")>> ELSE <<>>)
    \o
    (IF (oldTag.codeStartLine # newTag.codeStartLine
         \/ oldTag.codeEndLine # newTag.codeEndLine)
        /\ opts.includeChangedTags /\ opts.includeLineNumberChanges
     THEN <<ChangedDiff(newTag, "line_number")>> ELSE <<>>)
    \o
    (IF oldTag.codeContents # newTag.codeContents
        /\ opts.includeChangedTags /\ opts.includeCodeContentsChanges
     THEN <<ContentsDiff(oldTag, newTag)>> ELSE <<>>)

RemovedDiff(oldTag) ==
    [filePath |-> oldTag.filePath, tagName |-> oldTag.tagName,
     changeType |-> "code_contents", type |-> "removed"]

\* a plausible slip: the added diff built from the wrong change type
AddedDiffFilePath(newTag) ==
    [filePath |-> newTag.filePath, tagName |-> newTag.tagName,
     codeStartLine |-> newTag.codeStartLine, codeEndLine |-> newTag.codeEndLine,
     changeType |-> "file_path", type |-> "added"]

AddedDiff(newTag) ==
    [filePath |-> newTag.filePath, tagName |-> newTag.tagName,
     codeStartLine |-> newTag.codeStartLine, codeEndLine |-> newTag.codeEndLine,
     changeType |-> "code_contents", type |-> "added"]

\* the flags findDocTagDiffs derives from its options
Flags(opts) ==
    [includeAddedTags   |-> "added" \in opts.includedTypes,
     includeRemovedTags |-> "removed" \in opts.includedTypes,
     includeChangedTags |-> "changed" \in opts.includedTypes,
     includeFilePathChanges     |-> "file_path" \in opts.includedChangeTypes,
     includeLineNumberChanges   |-> "line_number" \in opts.includedChangeTypes,
     includeCodeContentsChanges |-> "code_contents" \in opts.includedChangeTypes]

\* first loop: an old tag with no new tag of the same name and file path
SamePathMatch(oldTag, tags) ==
    FirstIndex({i \in 1..Len(tags) : tags[i].tagName = oldTag.tagName
                                      /\ tags[i].filePath = oldTag.filePath})

\* a plausible slip: the removed diff gated on the type alone
FirstRemovedPassUngated(old, new, f) ==
    LET RECURSIVE Loop(_)
        Loop(i) ==
            IF i > Len(old) THEN <<>>
            ELSE (IF SamePathMatch(old[i], new) = 0 /\ f.includeRemovedTags
                  THEN <<RemovedDiff(old[i])>> ELSE <<>>) \o Loop(i + 1)
    IN  Loop(1)

\* a plausible slip: the first loop matching on the extension, as its
\* comment says, instead of the whole path
FirstRemovedPassByExt(old, new, f) ==
    LET RECURSIVE Loop(_)
        Loop(i) ==
            IF i > Len(old) THEN <<>>
            ELSE (IF {j \in 1..Len(new) :
                        new[j].tagName = old[i].tagName
                        /\ ExtName(new[j].filePath) = ExtName(old[i].filePath)} = {}
                     /\ f.includeRemovedTags /\ f.includeCodeContentsChanges
                  THEN <<RemovedDiff(old[i])>> ELSE <<>>) \o Loop(i + 1)
    IN  Loop(1)

FirstRemovedPass(old, new, f) ==
    LET RECURSIVE Loop(_)
        Loop(i) ==
            IF i > Len(old) THEN <<>>
            ELSE (IF SamePathMatch(old[i], new) = 0 /\ f.includeRemovedTags
                     /\ f.includeCodeContentsChanges
                  THEN <<RemovedDiff(old[i])>> ELSE <<>>) \o Loop(i + 1)
    IN  Loop(1)

\* second loop: the first old tag of the same name and file extension
SameExtMatch(newTag, tags) ==
    FirstIndex({i \in 1..Len(tags) :
                   tags[i].tagName = newTag.tagName
                   /\ ExtName(tags[i].filePath) = ExtName(newTag.filePath)})

AddedChangedPass(old, new, f) ==
    LET RECURSIVE Loop(_)
        Loop(j) ==
            IF j > Len(new) THEN <<>>
            ELSE LET m == SameExtMatch(new[j], old)
                 IN  (IF m = 0 /\ f.includeAddedTags /\ f.includeCodeContentsChanges
                      THEN <<AddedDiff(new[j])>>
                      ELSE IF m # 0 THEN CreateDocTagDiff(old[m], new[j], f)
                      ELSE <<>>) \o Loop(j + 1)
    IN  Loop(1)

\* third loop: an old tag whose name no new tag carries
SameNameMatch(oldTag, tags) ==
    FirstIndex({i \in 1..Len(tags) : tags[i].tagName = oldTag.tagName})

FinalRemovedPass(old, new, f) ==
    LET RECURSIVE Loop(_)
        Loop(i) ==
            IF i > Len(old) THEN <<>>
            ELSE (IF SameNameMatch(old[i], new) = 0 /\ f.includeRemovedTags
                     /\ f.includeCodeContentsChanges
                  THEN <<RemovedDiff(old[i])>> ELSE <<>>) \o Loop(i + 1)
    IN  Loop(1)

\* what a call returns or throws
Returned(diffs) == [error |-> "", diffs |-> diffs]
Thrown(error)   == [error |-> error, diffs |-> <<>>]

\* findDocTagDiffs: destructuring an undefined options argument throws a
\* TypeError before anything else runs
FindDocTagDiffs(old, new, opts) ==
    IF ~opts.given THEN Thrown("TypeError")
    ELSE LET f == Flags(opts)
         IN  Returned(FirstRemovedPass(old, new, f)
                      \o AddedChangedPass(old, new, f)
                      \o FinalRemovedPass(old, new, f))

----------------------------------------------------------------------------
(* Inputs of the differ: tags named X or Y in a.js, b.js (same extension)  *)
(* and a.kt (another extension).  The X tags of the .js files come at      *)
(* lines 1-3, 1-4 or 2-4 and with contents foo or bar, so that two of them *)
(* can differ in any combination of path, lines and contents, and in the   *)
(* start line alone or the end line alone.                                 *)

PathAJs == <<"a", ".", "j", "s">>
PathBJs == <<"b", ".", "j", "s">>
PathAKt == <<"a", ".", "k", "t">>

DocTag(filePath, tagName, startLine, endLine, contents) ==
    [filePath |-> filePath, tagName |-> tagName, codeStartLine |-> startLine,
     codeEndLine |-> endLine, codeContents |-> contents]

DocTags ==
    {DocTag(p, "X", 1, 3, c) : p \in {PathAJs, PathBJs}, c \in {"foo", "bar"}}
    \cup {DocTag(PathAJs, "X", 1, 4, "foo"), DocTag(PathAJs, "X", 2, 4, "bar")}
    \cup {DocTag(PathAKt, "X", 1, 3, "foo"), DocTag(PathAJs, "Y", 1, 4, "foo")}

\* the tags used where every choice of options is tried
GateTags ==
    {DocTag(PathAJs, "X", 1, 3, "foo"), DocTag(PathAJs, "X", 1, 3, "bar"),
     DocTag(PathBJs, "X", 2, 4, "bar"), DocTag(PathAJs, "Y", 1, 4, "foo")}

----------------------------------------------------------------------------
(* The three state machines share the variables; each leaves the others'   *)
(* variables at rest.                                                      *)

DiffIdle ==
    /\ oldTags = <<>> /\ newTags = <<>> /\ options = NoOptions
    /\ result = Returned(<<>>) /\ dpc = "idle"

ScanIdle ==
    /\ fileLines = <<>> /\ scanResult = [error |-> "", line |-> 0, docTags |-> <<>>]
    /\ spc = "idle"

RunIdle ==
    /\ extensionsInput = <<>> /\ baseRefInput = "" /\ pullRequest = <<>>
    /\ issue = 0
    /\ currentFiles = <<>> /\ baseFiles = <<>> /\ head = "current"
    /\ pc = "idle"
    /\ currentTags = <<>> /\ baseRefTags = <<>> /\ docTagDiffs = <<>>
    /\ failed = "" /\ trace = <<>> /\ reported = <<>>

----------------------------------------------------------------------------
(* findDocTagDiffs as a state machine: the arguments are drawn, the call   *)
(* is made once.                                                           *)

DiffInit ==
    /\ oldTags \in SeqsUpTo(DocTags, MaxTags)
    /\ newTags \in SeqsUpTo(DocTags, MaxTags)
    /\ options = NoOptions
    /\ result = Returned(<<>>)
    /\ dpc = "ready"
    /\ ScanIdle /\ RunIdle

DiffCall(opts) ==
    /\ dpc = "ready"
    /\ options' = opts
    /\ result' = FindDocTagDiffs(oldTags, newTags, opts)
    /\ dpc' = "done"
    /\ UNCHANGED <<oldTags, newTags, scanVars, runVars>>

\* findDocTagDiffs(oldTags, newTags, {all types, all change types})
CallAllEnabled == DiffCall(DefaultOptions)

\* findDocTagDiffs(oldTags, newTags), the call run() makes
CallWithoutOptions == DiffCall(NoOptions)

DiffNext == CallAllEnabled \/ CallWithoutOptions

SpecDiff == DiffInit /\ [][DiffNext]_vars

----------------------------------------------------------------------------
(* The same call under every choice of includedTypes and                   *)
(* includedChangeTypes.                                                    *)

GateInit ==
    /\ oldTags \in SeqsUpTo(GateTags, MaxGateTags)
    /\ newTags \in SeqsUpTo(GateTags, MaxGateTags)
    /\ options = NoOptions
    /\ result = Returned(<<>>)
    /\ dpc = "ready"
    /\ ScanIdle /\ RunIdle

\* findDocTagDiffs(oldTags, newTags, {includedTypes, includedChangeTypes})
CallWithOptions == \E opts \in AllOptions : DiffCall(opts)

GateNext == CallWithOptions

SpecGate == GateInit /\ [][GateNext]_vars

----------------------------------------------------------------------------
(* The scanner: processFile.                                               *)

\* tokens of a line: a character of ordinary text, or a whole marker
Ch(c)      == [kind |-> "text", value |-> c]
StartOf(n) == [kind |-> "START", value |-> n]
EndOf(n)   == [kind |-> "END", value |-> n]
Space      == Ch(" ")
Newline    == Ch("\n")

\* line.match(DOC_TAG_START_REGEX) / line.match(DOC_TAG_END_REGEX): the
\* name captured by the first marker of that kind on the line, "" for null
\* (a captured name has at least one character)
FirstOfKind(line, kind) ==
    LET at == {k \in 1..Len(line) : line[k].kind = kind}
    IN  IF at = {} THEN "" ELSE line[Min(at)].value
StartMatch(line) == FirstOfKind(line, "START")
EndMatch(line)   == FirstOfKind(line, "END")

\* String.prototype.trim: white space and line terminators dropped at both
\* ends.  WhiteSpace is the characters trim removes; those that cannot be
\* written in a string here (vertical tab, no-break space, the Unicode
\* spaces and separators, the byte order mark) go by their code points.
WhiteSpace ==
    {" ", "\n", "\t", "\r", "\f", "U+000B", "U+00A0", "U+1680", "U+2000",
     "U+2001", "U+2002", "U+2003", "U+2004", "U+2005", "U+2006", "U+2007",
     "U+2008", "U+2009", "U+200A", "U+2028", "U+2029", "U+202F", "U+205F",
     "U+3000", "U+FEFF"}
IsWhite(t) == t.kind = "text" /\ t.value \in WhiteSpace
Trim(text) ==
    LET solid == {k \in 1..Len(text) : ~IsWhite(text[k])}
    IN  IF solid = {} THEN <<>> ELSE SubSeq(text, Min(solid), Max(solid))

\* currentTag = {}: no start line, no name
EmptyTag == [codeStartLine |-> 0, tagName |-> "", codeContents |-> <<>>]

ScanReturned(docTags) == [error |-> "", line |-> 0, docTags |-> docTags]
ScanThrown(line) == [error |-> "Missing end tag", line |-> line, docTags |-> <<>>]

\* a plausible slip: the open tag is kept after its record is pushed
ScanLineKeepsOpen(filePath, st, line, index) ==
    IF StartMatch(line) # ""
    THEN [st EXCEPT !.currentTag = [codeStartLine |-> index,
                                    tagName |-> StartMatch(line),
                                    codeContents |-> <<>>]]
    ELSE IF EndMatch(line) # "" /\ st.currentTag.tagName = EndMatch(line)
    THEN [st EXCEPT !.docTags =
             Append(@, [filePath |-> filePath,
                        codeStartLine |-> st.currentTag.codeStartLine,
                        codeEndLine |-> index,
                        codeContents |-> Trim(st.currentTag.codeContents),
                        tagName |-> st.currentTag.tagName])]
    ELSE IF st.currentTag.codeStartLine # 0
    THEN [st EXCEPT !.currentTag.codeContents = @ \o line \o <<Newline>>]
    ELSE st

\* the forEach callback on line `index` (1-based): the scanner's state is
\* the open tag and the records pushed so far
ScanLine(filePath, st, line, index) ==
    IF StartMatch(line) # ""
    THEN [st EXCEPT !.currentTag = [codeStartLine |-> index,
                                    tagName |-> StartMatch(line),
                                    codeContents |-> <<>>]]
    ELSE IF EndMatch(line) # "" /\ st.currentTag.tagName = EndMatch(line)
    THEN [currentTag |-> EmptyTag,
          docTags |-> Append(st.docTags,
                             [filePath |-> filePath,
                              codeStartLine |-> st.currentTag.codeStartLine,
                              codeEndLine |-> index,
                              codeContents |-> Trim(st.currentTag.codeContents),
                              tagName |-> st.currentTag.tagName])]
    ELSE IF st.currentTag.codeStartLine # 0
    THEN [st EXCEPT !.currentTag.codeContents = @ \o line \o <<Newline>>]
    ELSE st

ProcessFile(filePath, lines) ==
    LET RECURSIVE Scan(_, _)
        Scan(st, index) ==
            IF index > Len(lines) THEN st
            ELSE Scan(ScanLine(filePath, st, lines[index], index), index + 1)
        end == Scan([currentTag |-> EmptyTag, docTags |-> <<>>], 1)
    IN  IF end.currentTag.codeStartLine # 0
        THEN ScanThrown(end.currentTag.codeStartLine)
        ELSE ScanReturned(end.docTags)

----------------------------------------------------------------------------
(* Inputs of the scanner: lines of text (one indented with a tab and       *)
(* ended by a carriage return), of markers for the names A and B, and of   *)
(* two markers at once.                                                    *)

LineShapes ==
    { <<>>, <<Space>>, <<Ch("a")>>, <<Ch("\t"), Ch("a"), Ch("\r")>>,
      <<StartOf("A")>>, <<StartOf("B")>>, <<EndOf("A")>>, <<EndOf("B")>>,
      <<StartOf("A"), EndOf("A")>>, <<EndOf("B"), EndOf("A")>>,
      <<EndOf("A"), StartOf("B")>> }

(* processFile as a state machine: a file is drawn, the call is made once. *)

ScanInit ==
    /\ fileLines \in SeqsUpTo(LineShapes, MaxLines)
    /\ scanResult = ScanReturned(<<>>)
    /\ spc = "ready"
    /\ DiffIdle /\ RunIdle

\* processFile("a.js")
ProcessFileCall ==
    /\ spc = "ready"
    /\ scanResult' = ProcessFile(PathAJs, fileLines)
    /\ spc' = "done"
    /\ UNCHANGED <<fileLines, diffVars, runVars>>

ScanNext == ProcessFileCall

SpecScan == ScanInit /\ [][ScanNext]_vars

----------------------------------------------------------------------------
(* extractDocTags and run().                                               *)

\* String.prototype.split(sep): the pieces between the separators; a text
\* without separator, the empty text included, is one piece
RECURSIVE Split(_, _)
Split(text, sep) ==
    LET at == {k \in 1..Len(text) : text[k] = sep}
    IN  IF at = {} THEN <<text>>
        ELSE <<SubSeq(text, 1, Min(at) - 1)>>
             \o Split(SubSeq(text, Min(at) + 1, Len(text)), sep)

\* path.normalize (posix): empty and "." segments are dropped, a ".."
\* takes back the segment before it (and stays when there is none to take
\* back in a relative path), a trailing separator is kept, the empty
\* result is "."
RECURSIVE Glue(_)
Glue(segments) ==
    IF Len(segments) = 0 THEN <<>>
    ELSE IF Len(segments) = 1 THEN segments[1]
    ELSE segments[1] \o <<"/">> \o Glue(Tail(segments))

RECURSIVE Resolve(_, _, _)
Resolve(segments, stack, isAbsolute) ==
    IF Len(segments) = 0 THEN stack
    ELSE LET seg  == Head(segments)
             rest == Tail(segments)
         IN  IF seg = <<>> \/ seg = <<".">> THEN Resolve(rest, stack, isAbsolute)
             ELSE IF seg = <<".", ".">>
             THEN IF Len(stack) > 0 /\ stack[Len(stack)] # <<".", ".">>
                  THEN Resolve(rest, SubSeq(stack, 1, Len(stack) - 1), isAbsolute)
                  ELSE IF isAbsolute THEN Resolve(rest, stack, isAbsolute)
                  ELSE Resolve(rest, Append(stack, seg), isAbsolute)
             ELSE Resolve(rest, Append(stack, seg), isAbsolute)

Normalize(p) ==
    IF Len(p) = 0 THEN <<".">>
    ELSE LET isAbsolute == p[1] = "/"
             trailing   == p[Len(p)] = "/"
             body       == Glue(Resolve(Split(p, "/"), <<>>, isAbsolute))
             dotted     == IF Len(body) = 0 /\ ~isAbsolute THEN <<".">> ELSE body
             closed     == IF Len(dotted) > 0 /\ trailing
                           THEN dotted \o <<"/">> ELSE dotted
         IN  IF isAbsolute THEN <<"/">> \o closed ELSE closed

\* path.join(directory, file): the non-empty arguments joined by "/", then
\* normalized
Join(directory, file) ==
    Normalize(IF Len(directory) = 0 THEN file
              ELSE IF Len(file) = 0 THEN directory
              ELSE directory \o <<"/">> \o file)

\* process.env.GITHUB_WORKSPACE || process.cwd()
Cwd == <<"w">>

\* glob.sync of the pattern "{" + patterns joined by "," + "}", where each
\* extension gives the pattern "**/*." + extension.  A brace group of two
\* or more patterns is expanded into its patterns; a group of one is not
\* expanded, and its braces are matched as written.  "*" does not match a
\* "." at the start of a segment, and "**" does not enter such a segment.
\* (Extensions are texts without pattern characters.)
EndsWith(text, suffix) ==
    /\ Len(suffix) <= Len(text)
    /\ SubSeq(text, Len(text) - Len(suffix) + 1, Len(text)) = suffix

Visible(segment) == Len(segment) > 0 /\ segment[1] # "."

\* "**/*." + ext
MatchesExtension(file, ext) ==
    LET segments == Split(file, "/")
    IN  /\ \A k \in 1..Len(segments) : Visible(segments[k])
        /\ EndsWith(segments[Len(segments)], <<".">> \o ext)

\* "{**/*." + ext + "}" with the braces taken as written
MatchesUnexpanded(file, ext) ==
    LET segments == Split(file, "/")
    IN  /\ Len(segments) = 2
        /\ Len(segments[1]) > 0 /\ segments[1][1] = "{"
        /\ Visible(segments[2])
        /\ EndsWith(segments[2], <<".">> \o ext \o <<"}">>)

GlobMatches(file, extensions) ==
    IF Len(extensions) = 1 THEN MatchesUnexpanded(file, extensions[1])
    ELSE \E k \in 1..Len(extensions) : MatchesExtension(file, extensions[k])

\* the directories of a tree: what stands before a "/" of a file's path
DirectoriesOf(tree) ==
    UNION {{SubSeq(tree[k].path, 1, i - 1) :
               i \in {j \in 2..Len(tree[k].path) : tree[k].path[j] = "/"}} :
           k \in 1..Len(tree)}

\* the paths under the working directory: its files and its directories
Entries(tree) ==
    {[path |-> tree[k].path, isDirectory |-> FALSE, lines |-> tree[k].lines] :
        k \in 1..Len(tree)}
    \cup {[path |-> d, isDirectory |-> TRUE, lines |-> <<>>] : d \in DirectoriesOf(tree)}

\* findFilesInDirectory: the paths of the tree the pattern matches,
\* directories included (the glob is not told to leave them out).  The
\* glob returns them in the order it walks the directory, which is not
\* fixed by the tree: every order is an outcome.
FindFilesInDirectory(tree, extensions) ==
    LET found == {e \in Entries(tree) : GlobMatches(e.path, extensions)}
    IN  {files \in [1..Cardinality(found) -> found] :
            \A i, j \in 1..Cardinality(found) : files[i] = files[j] => i = j}

\* fs.readFileSync of a directory throws
ReadThrown == [error |-> "EISDIR", line |-> 0, docTags |-> <<>>]

\* extractDocTags over the paths findFilesInDirectory returned, in its
\* order: the records of all files, or the first error
ExtractDocTags(directory, files) ==
    LET RECURSIVE Loop(_, _)
        Loop(k, docTags) ==
            IF k > Len(files) THEN ScanReturned(docTags)
            ELSE LET r == IF files[k].isDirectory THEN ReadThrown
                          ELSE ProcessFile(Join(directory, files[k].path),
                                           files[k].lines)
                 IN  IF r.error # "" THEN r
                     ELSE Loop(k + 1, docTags \o r.docTags)
    IN  Loop(1, <<>>)

\* core.getInput('base-ref') || github.context.payload.pull_request?.base.ref
\* ("" stands for undefined as well: both are falsy)
GetBaseRef ==
    IF baseRefInput # "" THEN baseRefInput
    ELSE IF pullRequest # <<>> THEN pullRequest[1].baseRef
    ELSE ""

\* the files of the working directory as it is checked out
WorkFiles == IF head = "base" THEN baseFiles ELSE currentFiles

\* the catch block: core.setFailed(error), and run() is over
RunFails(error) ==
    /\ failed' = error
    /\ pc' = "done"

\* run() up to its first await: the inputs are read and checked, the
\* current tree is extracted, checkoutRef is entered
RunStart ==
    /\ pc = "start"
    /\ LET extensions == Split(extensionsInput, ",")
       IN  IF Len(extensions) = 0
           THEN /\ RunFails("No extensions provided")
                /\ UNCHANGED <<trace, currentTags>>
           ELSE IF GetBaseRef = ""
           THEN /\ RunFails("Action should be run in pull request context or base-ref should be provided")
                /\ UNCHANGED <<trace, currentTags>>
           ELSE /\ trace' = Append(trace, "extractDocTags")
                /\ \E files \in FindFilesInDirectory(WorkFiles, extensions) :
                      LET extracted == ExtractDocTags(Cwd, files)
                      IN  IF extracted.error # ""
                          THEN RunFails(extracted.error) /\ UNCHANGED currentTags
                          ELSE /\ currentTags' = extracted.docTags
                               /\ pc' = "git fetch"
                               /\ UNCHANGED failed
    /\ UNCHANGED <<extensionsInput, baseRefInput, pullRequest, issue, currentFiles,
                   baseFiles, head, baseRefTags, docTagDiffs, reported,
                   diffVars, scanVars>>

\* one awaited exec.exec of checkoutRef: the command ends well and run()
\* goes on, or it fails and the promise rejects
Exec(command, next, headAfter) ==
    /\ pc = command
    /\ trace' = Append(trace, command)
    /\ \E ok \in BOOLEAN :
          IF ok THEN /\ pc' = next
                     /\ head' = headAfter
                     /\ UNCHANGED failed
                ELSE /\ RunFails("exec failed")
                     /\ UNCHANGED head
    /\ UNCHANGED <<extensionsInput, baseRefInput, pullRequest, issue, currentFiles,
                   baseFiles, currentTags, baseRefTags, docTagDiffs, reported,
                   diffVars, scanVars>>

GitFetch    == Exec("git fetch", "git checkout", head)
GitCheckout == Exec("git checkout", "git pull", "base")
GitPull     == Exec("git pull", "afterCheckout", head)

\* annotatePR: one warning per diff
Annotations(diffs) == [n \in 1..Len(diffs) |-> [kind |-> "warning", diff |-> diffs[n]]]

\* the comment's body: the added, the removed, then the changed diffs
OfType(diffs, type) == SelectSeq(diffs, LAMBDA d : d.type = type)
CommentBody(diffs) ==
    OfType(diffs, "added") \o OfType(diffs, "removed") \o OfType(diffs, "changed")

\* payload.pull_request?.number || payload.issue?.number (0 for undefined)
IssueNumber ==
    IF pullRequest # <<>> /\ pullRequest[1].number # 0
    THEN pullRequest[1].number ELSE issue

\* run() from the diffs to its next await, after the steps `done`: without
\* a pull request the diffs are printed and run() returns; with one,
\* annotatePR emits the warnings and commentOnPr runs up to its request
\* for the first page of comments
Report(diffs, done) ==
    IF pullRequest = <<>>
    THEN /\ trace' = trace \o done \o <<"console.dir">>
         /\ reported' = <<[kind |-> "printed", diffs |-> diffs]>>
         /\ pc' = "done"
         /\ UNCHANGED failed
    ELSE /\ trace' = trace \o done \o <<"annotatePR", "commentOnPr">>
         /\ reported' = Annotations(diffs)
         /\ IF IssueNumber = 0
            THEN RunFails("No issue number found")
            ELSE pc' = "listComments" /\ UNCHANGED failed

\* the pages of comments asked for so far
PagesAsked == Cardinality({k \in 1..Len(trace) : trace[k] = "listComments"})

\* commentOnPr, one awaited page of listComments: the request fails, or
\* the page holds the action's comment, or it does not and is followed by
\* another page, or it does not and is the last
ListComments ==
    /\ pc = "listComments"
    /\ trace' = Append(trace, "listComments")
    /\ \E answer \in {"failed", "found", "more", "last"} :
          /\ answer = "more" => PagesAsked + 1 < MaxPages
          /\ IF answer = "failed" THEN RunFails("request failed")
             ELSE /\ pc' = CASE answer = "found" -> "updateComment"
                              [] answer = "more"  -> "listComments"
                              [] answer = "last"  -> "createComment"
                  /\ UNCHANGED failed
    /\ UNCHANGED <<extensionsInput, baseRefInput, pullRequest, issue, currentFiles,
                   baseFiles, head, currentTags, baseRefTags, docTagDiffs, reported,
                   diffVars, scanVars>>

\* commentOnPr, the awaited updateComment / createComment
SendComment(request, issueNumber) ==
    /\ pc = request
    /\ trace' = Append(trace, request)
    /\ \E ok \in BOOLEAN :
          IF ok THEN /\ reported' = Append(reported,
                                          [kind |-> "comment", request |-> request,
                                           issue |-> issueNumber,
                                           diffs |-> CommentBody(docTagDiffs)])
                     /\ pc' = "done"
                     /\ UNCHANGED failed
                ELSE /\ RunFails("request failed")
                     /\ UNCHANGED reported
    /\ UNCHANGED <<extensionsInput, baseRefInput, pullRequest, issue, currentFiles,
                   baseFiles, head, currentTags, baseRefTags, docTagDiffs,
                   diffVars, scanVars>>

\* updateComment names the comment, createComment the issue
UpdateComment == SendComment("updateComment", 0)
CreateComment == SendComment("createComment", IssueNumber)

\* run() after checkoutRef: the base tree is extracted, the two tag lists
\* are diffed (findDocTagDiffs is called with two arguments; the call and
\* its outcome are kept in oldTags, newTags, options and result), the diffs
\* are printed or, in a pull request, annotated and the comment begun
RunAfterCheckout ==
    /\ pc = "afterCheckout"
    /\ \E files \in FindFilesInDirectory(WorkFiles, Split(extensionsInput, ",")) :
       LET extracted == ExtractDocTags(Cwd, files)
           diffed    == FindDocTagDiffs(extracted.docTags, currentTags, NoOptions)
       IN  IF extracted.error # ""
           THEN /\ trace' = Append(trace, "extractDocTags")
                /\ RunFails(extracted.error)
                /\ UNCHANGED <<baseRefTags, docTagDiffs, reported, diffVars>>
           ELSE /\ baseRefTags' = extracted.docTags
                /\ oldTags' = extracted.docTags
                /\ newTags' = currentTags
                /\ options' = NoOptions
                /\ result' = diffed
                /\ dpc' = "done"
                /\ IF diffed.error # ""
                   THEN /\ trace' = trace \o <<"extractDocTags", "findDocTagDiffs">>
                        /\ RunFails(diffed.error)
                        /\ UNCHANGED <<docTagDiffs, reported>>
                   ELSE /\ docTagDiffs' = diffed.diffs
                        /\ Report(diffed.diffs, <<"extractDocTags", "findDocTagDiffs">>)
    /\ UNCHANGED <<extensionsInput, baseRefInput, pullRequest, issue, currentFiles,
                   baseFiles, head, currentTags, scanVars>>

----------------------------------------------------------------------------
(* Inputs of run(): the extensions input, the base-ref input, the pull     *)
(* request of the event, and the files of the two trees.                   *)

ExtensionInputs ==
    { <<>>, <<"j", "s">>, <<"j", "s", ",", "k", "t">>, <<"j", "s", ",", "t", "s">> }
BaseRefInputs   == {"", "main"}
\* the event's pull request: none, or one with its base and number
PullRequests == { <<>>, <<[baseRef |-> "main", number |-> 7]>> }

\* a file with one closed tag, one whose tag is never closed, one whose
\* first tag is never closed and is followed by a closed one
FileShapes ==
    { << <<StartOf("A")>>, <<Ch("a")>>, <<EndOf("A")>> >>,
      << <<StartOf("A")>>, <<Ch("a")>> >>,
      << <<StartOf("A")>>, <<StartOf("B")>>, <<EndOf("B")>> >> }

\* a file in a directory whose name ends like a file's
PathXJsAKt == <<"x", ".", "j", "s", "/", "a", ".", "k", "t">>

\* the paths of the files of a tree, relative to the working directory:
\* the paths the first, the second and the third file can have
FileNames == << {PathAJs}, {PathAKt, PathXJsAKt}, {PathBJs} >>

Trees ==
    UNION {{[k \in 1..n |-> [path |-> names[k], lines |-> shapes[k]]] :
               names \in {f \in [1..n -> UNION {FileNames[k] : k \in 1..n}] :
                             \A k \in 1..n : f[k] \in FileNames[k]},
               shapes \in [1..n -> FileShapes]} :
           n \in 0..Min({MaxFiles, Len(FileNames)})}

RunInit ==
    /\ extensionsInput \in ExtensionInputs
    /\ baseRefInput \in BaseRefInputs
    /\ pullRequest \in PullRequests
    /\ issue = 0
    /\ currentFiles \in Trees
    /\ baseFiles \in Trees
    /\ head = "current"
    /\ pc = "start"
    /\ currentTags = <<>> /\ baseRefTags = <<>> /\ docTagDiffs = <<>>
    /\ failed = "" /\ trace = <<>> /\ reported = <<>>
    /\ DiffIdle /\ ScanIdle

RunNext == RunStart \/ GitFetch \/ GitCheckout \/ GitPull \/ RunAfterCheckout

SpecRun == RunInit /\ [][RunNext]_vars

----------------------------------------------------------------------------
(* The report of run() on its own.  No run gets to it, because the call of *)
(* findDocTagDiffs in run() throws; here run() stands after that call, as  *)
(* if it had returned diffs.                                               *)

\* payload.issue?.number (0 for undefined)
IssueNumbers == {0, 5}

\* a pull request whose payload has no number (0 for undefined)
UnnumberedPullRequest == <<[baseRef |-> "main", number |-> 0]>>

\* diffs findDocTagDiffs returns when it is given its options
ReportedDiffs ==
    {FindDocTagDiffs(old, new, DefaultOptions).diffs :
        old \in SeqsUpTo(GateTags, MaxGateTags),
        new \in SeqsUpTo(GateTags, MaxGateTags)}

ReportInit ==
    /\ extensionsInput = <<"j", "s", ",", "k", "t">>
    /\ baseRefInput = "main"
    /\ pullRequest \in PullRequests \cup {UnnumberedPullRequest}
    /\ issue \in IssueNumbers
    /\ currentFiles = <<>> /\ baseFiles = <<>>
    /\ head = "base"
    /\ pc = "report"
    /\ currentTags = <<>> /\ baseRefTags = <<>>
    /\ docTagDiffs \in ReportedDiffs
    /\ failed = ""
    /\ trace = <<"extractDocTags", "git fetch", "git checkout", "git pull",
                 "extractDocTags", "findDocTagDiffs">>
    /\ reported = <<>>
    /\ DiffIdle /\ ScanIdle

\* run() from the returned diffs to its next await
ReportStart ==
    /\ pc = "report"
    /\ Report(docTagDiffs, <<>>)
    /\ UNCHANGED <<extensionsInput, baseRefInput, pullRequest, issue, currentFiles,
                   baseFiles, head, currentTags, baseRefTags, docTagDiffs,
                   diffVars, scanVars>>

ReportNext == ReportStart \/ ListComments \/ UpdateComment \/ CreateComment

SpecReport == ReportInit /\ [][ReportNext]_vars

----------------------------------------------------------------------------
(* Claims about findDocTagDiffs.                                           *)

AllEnabledDone == dpc = "done" /\ options = DefaultOptions

SameNameAndExt(a, b) ==
    a.tagName = b.tagName /\ ExtName(a.filePath) = ExtName(b.filePath)

\* a collection extractDocTags can return: the tags of one file lie one
\* after the other, in line order
Extractable(tags) ==
    \A i, j \in 1..Len(tags) :
        (i < j /\ tags[i].filePath = tags[j].filePath)
            => tags[i].codeEndLine < tags[j].codeStartLine

\* C1 (as claimed, over the collections an extraction can return): diffing
\* a collection against itself with everything enabled returns the empty
\* list, also when one tag name occurs in several files of one extension.
C1_Reflexive ==
    (AllEnabledDone /\ oldTags = newTags /\ Extractable(oldTags))
        => result = Returned(<<>>)

\* C2 (as claimed): an old tag that has no new tag of its name and path but
\* has a new tag of its name and extension under another path gets no
\* removed diff and no added diff; one old tag {X, a.js} against one new
\* tag {X, b.js} with equal lines and contents gives exactly one diff,
\* changed/file_path.
C2_RenameNotRemoved ==
    AllEnabledDone =>
        /\ \A i \in 1..Len(oldTags) :
              ( /\ \A j \in 1..Len(newTags) :
                      ~(newTags[j].tagName = oldTags[i].tagName
                        /\ newTags[j].filePath = oldTags[i].filePath)
                /\ \E j \in 1..Len(newTags) :
                      SameNameAndExt(newTags[j], oldTags[i]) )
              => \A k \in 1..Len(result.diffs) :
                    ~(result.diffs[k].type \in {"removed", "added"}
                      /\ result.diffs[k].tagName = oldTags[i].tagName
                      /\ result.diffs[k].filePath = oldTags[i].filePath)
        /\ ( /\ Len(oldTags) = 1 /\ Len(newTags) = 1
             /\ SameNameAndExt(oldTags[1], newTags[1])
             /\ oldTags[1].filePath # newTags[1].filePath
             /\ oldTags[1].codeStartLine = newTags[1].codeStartLine
             /\ oldTags[1].codeEndLine = newTags[1].codeEndLine
             /\ oldTags[1].codeContents = newTags[1].codeContents )
           => /\ Len(result.diffs) = 1
              /\ result.diffs[1].type = "changed"
              /\ result.diffs[1].changeType = "file_path"

\* the old tag a new tag is matched to: the first, in input order, of its
\* name and file extension (0: none)
MatchedOld(j) ==
    LET same == {i \in 1..Len(oldTags) : SameNameAndExt(oldTags[i], newTags[j])}
    IN  IF same = {} THEN 0 ELSE Min(same)

\* the change types the claim expects for a matched pair, in the order
\* file_path, line_number, code_contents
ExpectedChangeTypes(old, new) ==
    (IF old.filePath # new.filePath THEN <<"file_path">> ELSE <<>>)
    \o (IF old.codeStartLine # new.codeStartLine \/ old.codeEndLine # new.codeEndLine
        THEN <<"line_number">> ELSE <<>>)
    \o (IF old.codeContents # new.codeContents THEN <<"code_contents">> ELSE <<>>)

ExpectedChangedFrom(j) ==
    LET RECURSIVE Loop(_)
        Loop(k) ==
            IF k > Len(newTags) THEN <<>>
            ELSE (IF MatchedOld(k) = 0 THEN <<>>
                  ELSE LET types == ExpectedChangeTypes(oldTags[MatchedOld(k)], newTags[k])
                       IN  [n \in 1..Len(types) |-> <<k, types[n]>>]) \o Loop(k + 1)
    IN  Loop(j)

IsChanged(d) == d.type = "changed"

\* C5: with everything enabled the changed diffs are, new tag by new tag in
\* input order, one per differing field of the new tag and the first old
\* tag of its name and extension (file_path, line_number, code_contents,
\* each iff that field differs), carrying the new tag's path, name and
\* lines, and a patch of the two contents on code_contents; a lone pair
\* that differs in contents only gives that one diff and nothing else.
C5_ChangedPerDifferingField ==
    AllEnabledDone =>
        LET changed  == SelectSeq(result.diffs, IsChanged)
            expected == ExpectedChangedFrom(1)
        IN  /\ result.error = ""
            /\ Len(changed) = Len(expected)
            /\ \A n \in 1..Len(expected) :
                  LET new == newTags[expected[n][1]]
                      old == oldTags[MatchedOld(expected[n][1])]
                      d   == changed[n]
                  IN  /\ d.changeType = expected[n][2]
                      /\ d.filePath = new.filePath /\ d.tagName = new.tagName
                      /\ d.codeStartLine = new.codeStartLine
                      /\ d.codeEndLine = new.codeEndLine
                      /\ d.changeType = "code_contents" =>
                            d.codeContentsDiff =
                                CreateTwoFilesPatch(old.filePath, new.filePath,
                                                    old.codeContents, new.codeContents)
            /\ ( /\ Len(oldTags) = 1 /\ Len(newTags) = 1
                 /\ oldTags[1].tagName = newTags[1].tagName
                 /\ oldTags[1].filePath = newTags[1].filePath
                 /\ oldTags[1].codeStartLine = newTags[1].codeStartLine
                 /\ oldTags[1].codeEndLine = newTags[1].codeEndLine
                 /\ oldTags[1].codeContents # newTags[1].codeContents )
               => /\ Len(result.diffs) = 1
                  /\ result.diffs[1].type = "changed"
                  /\ result.diffs[1].changeType = "code_contents"

\* C5 witness: a new tag with two candidate old tags, differing from the
\* first of them in path, lines and contents, has produced three changed
\* diffs.
C5_Witness ==
    /\ AllEnabledDone
    /\ Len(oldTags) = 2 /\ Len(newTags) = 1
    /\ SameNameAndExt(oldTags[1], newTags[1])
    /\ SameNameAndExt(oldTags[2], newTags[1])
    /\ oldTags[2] = newTags[1]
    /\ oldTags[1].filePath # newTags[1].filePath
    /\ oldTags[1].codeStartLine # newTags[1].codeStartLine
    /\ oldTags[1].codeContents # newTags[1].codeContents
    /\ Len(SelectSeq(result.diffs, IsChanged)) = 3

\* C6 (as claimed): the call without an options argument does not fail and
\* returns what the call with every type and change type enabled returns.
C6_NoOptionsIsAllEnabled ==
    (dpc = "done" /\ options = NoOptions) =>
        /\ result.error = ""
        /\ result = FindDocTagDiffs(oldTags, newTags, DefaultOptions)

\* whether the options let a diff through
Included(d, opts) ==
    d.type \in opts.includedTypes /\ d.changeType \in opts.includedChangeTypes

\* C7: under any options the result is the all-enabled result without the
\* diffs whose type or change type is not included, the rest unchanged and
\* in the same order.
C7_GatingOnlySuppresses ==
    (dpc = "done" /\ options.given) =>
        LET all  == FindDocTagDiffs(oldTags, newTags, DefaultOptions).diffs
            keep == {n \in 1..Len(all) : Included(all[n], options)}
            Nth(n) == CHOOSE k \in keep : Cardinality({m \in keep : m < k}) = n - 1
        IN  /\ result.error = ""
            /\ result.diffs = [n \in 1..Cardinality(keep) |-> all[Nth(n)]]

\* C7 witness: code_contents is disabled and the other change types are not;
\* the all-enabled result holds a removed, an added and a changed/file_path
\* diff, and only the last is left.
C7_Witness ==
    /\ dpc = "done" /\ options.given
    /\ options.includedTypes = DiffTypes
    /\ options.includedChangeTypes = {"file_path", "line_number"}
    /\ LET all == FindDocTagDiffs(oldTags, newTags, DefaultOptions).diffs
       IN  /\ \E n \in 1..Len(all) : all[n].type = "removed"
           /\ \E n \in 1..Len(all) : all[n].type = "added"
           /\ \E n \in 1..Len(all) : all[n].type = "changed"
                                       /\ all[n].changeType = "file_path"
    /\ Len(result.diffs) >= 1
    /\ \A n \in 1..Len(result.diffs) : result.diffs[n].type = "changed"

\* C8: against an empty old collection the result is one added diff per new
\* tag, in the new collection's order, with change type code_contents and
\* the new tag's path, name and lines, and nothing else.
C8_EmptyOldAllAdded ==
    (AllEnabledDone /\ oldTags = <<>> /\ newTags # <<>>) =>
        /\ result.error = ""
        /\ Len(result.diffs) = Len(newTags)
        /\ \A j \in 1..Len(newTags) :
              /\ result.diffs[j].type = "added"
              /\ result.diffs[j].changeType = "code_contents"
              /\ result.diffs[j].filePath = newTags[j].filePath
              /\ result.diffs[j].tagName = newTags[j].tagName
              /\ result.diffs[j].codeStartLine = newTags[j].codeStartLine
              /\ result.diffs[j].codeEndLine = newTags[j].codeEndLine

\* C8 witness: two different new tags against no old tag gave two diffs.
C8_Witness ==
    /\ AllEnabledDone /\ oldTags = <<>>
    /\ Len(newTags) = 2 /\ newTags[1] # newTags[2]
    /\ Len(result.diffs) = 2

----------------------------------------------------------------------------
(* The two removal passes.                                                 *)

RemovedEnabledDone ==
    /\ dpc = "done" /\ options.given
    /\ "removed" \in options.includedTypes
    /\ "code_contents" \in options.includedChangeTypes

\* the removed diffs the claim expects for old tag i: none when a new tag
\* has its name and path, one when a new tag has its name only, two when
\* no new tag has its name
ExpectedRemovals(i) ==
    IF \E j \in 1..Len(newTags) : newTags[j].tagName = oldTags[i].tagName
                                  /\ newTags[j].filePath = oldTags[i].filePath
    THEN 0
    ELSE IF \E j \in 1..Len(newTags) : newTags[j].tagName = oldTags[i].tagName
    THEN 1
    ELSE 2

\* the old tags expected to give at least n removed diffs, in input order
RECURSIVE OldWithRemovals(_, _)
OldWithRemovals(n, i) ==
    IF i > Len(oldTags) THEN <<>>
    ELSE (IF ExpectedRemovals(i) >= n THEN <<i>> ELSE <<>>)
         \o OldWithRemovals(n, i + 1)

IsRemovedOf(d, tag) ==
    /\ d.type = "removed" /\ d.changeType = "code_contents"
    /\ d.tagName = tag.tagName /\ d.filePath = tag.filePath

RECURSIVE SumOver(_, _)
SumOver(f, S) ==
    IF S = {} THEN 0
    ELSE LET x == CHOOSE y \in S : TRUE IN f[x] + SumOver(f, S \ {x})

\* C11: with removed and code_contents enabled the result is the first-pass
\* removals, then diffs that are not removals, then the final-pass
\* removals.  The first-pass removals are one per old tag, in input order,
\* that has no new tag of its name and path; the final-pass removals are
\* one per old tag, in input order, that has no new tag of its name.  So
\* an old tag gets 0, 1 or 2 removed diffs: 0 with a new tag of its name
\* and path, 1 with a new tag of its name only, 2 with none of its name.
C11_TwoRemovalPasses ==
    RemovedEnabledDone =>
        LET first == OldWithRemovals(1, 1)
            final == OldWithRemovals(2, 1)
            diffs == result.diffs
            n     == Len(diffs)
        IN  /\ result.error = ""
            /\ n >= Len(first) + Len(final)
            /\ \A k \in 1..Len(first) : IsRemovedOf(diffs[k], oldTags[first[k]])
            /\ \A k \in (Len(first) + 1)..(n - Len(final)) : diffs[k].type # "removed"
            /\ \A k \in 1..Len(final) :
                  IsRemovedOf(diffs[n - Len(final) + k], oldTags[final[k]])
            /\ \A i \in 1..Len(oldTags) :
                  Cardinality({k \in 1..n : IsRemovedOf(diffs[k], oldTags[i])})
                      = SumOver([j \in 1..Len(oldTags) |-> ExpectedRemovals(j)],
                                {j \in 1..Len(oldTags) :
                                    /\ oldTags[j].tagName = oldTags[i].tagName
                                    /\ oldTags[j].filePath = oldTags[i].filePath})

\* C11 witness: two old tags, one with a new tag of its name under another
\* path and one whose name no new tag carries, gave three removed diffs
\* around a changed diff.
C11_Witness ==
    /\ RemovedEnabledDone /\ "changed" \in options.includedTypes
    /\ "file_path" \in options.includedChangeTypes
    /\ Len(oldTags) = 2 /\ Len(newTags) = 1
    /\ ExpectedRemovals(1) = 1 /\ ExpectedRemovals(2) = 2
    /\ Len(result.diffs) >= 4
    /\ result.diffs[1].type = "removed" /\ result.diffs[2].type = "removed"
    /\ result.diffs[3].type = "changed"
    /\ result.diffs[Len(result.diffs)].type = "removed"

----------------------------------------------------------------------------
(* Claims about processFile.                                               *)

Carries(line, kind, name) ==
    \E k \in 1..Len(line) : line[k].kind = kind /\ line[k].value = name

MarkerNames == {"A", "B"}

\* a START marker for a name with no END marker for that name on any later
\* line
HasUnclosedStart(lines) ==
    \E i \in 1..Len(lines), n \in MarkerNames :
        /\ Carries(lines[i], "START", n)
        /\ \A j \in (i + 1)..Len(lines) : ~Carries(lines[j], "END", n)

\* C3 (as claimed): a file with a START marker for a name and no END marker
\* for that name on a later line makes processFile fail with the
\* missing-end-tag error, also when the START of another, closed, tag
\* follows the unclosed one.
C3_UnclosedStartFails ==
    (spc = "done" /\ HasUnclosedStart(fileLines)) => scanResult.error # ""

\* every START marker has an END marker for its name after it: later on its
\* own line, or on a later line
WellFormed(lines) ==
    \A i \in 1..Len(lines) : \A k \in 1..Len(lines[i]) :
        lines[i][k].kind = "START" =>
            \/ \E m \in (k + 1)..Len(lines[i]) :
                  lines[i][m] = EndOf(lines[i][k].value)
            \/ \E j \in (i + 1)..Len(lines) :
                  Carries(lines[j], "END", lines[i][k].value)

\* C4 (as claimed): on a well-formed file processFile does not fail, and
\* every record it returns starts on an earlier line than it ends.
C4_WellFormedIsTotal ==
    (spc = "done" /\ WellFormed(fileLines)) =>
        /\ scanResult.error = ""
        /\ \A r \in 1..Len(scanResult.docTags) :
              scanResult.docTags[r].codeStartLine < scanResult.docTags[r].codeEndLine

----------------------------------------------------------------------------
(* The scanner as a single slot.  A line is a START line when the START    *)
(* pattern matches it, and an END line for N when the START pattern does   *)
(* not match it and the END pattern captures N; the patterns capture the   *)
(* first marker of their kind on the line.                                 *)

IsStartLine(line) == StartMatch(line) # ""
IsEndLineFor(line, n) == ~IsStartLine(line) /\ n # "" /\ EndMatch(line) = n

\* line s opens a tag that line e closes: s is a START line for a name, e
\* is the first END line for that name after s, and no START line lies
\* between them
Closes(lines, s, e) ==
    /\ s < e /\ IsStartLine(lines[s])
    /\ IsEndLineFor(lines[e], StartMatch(lines[s]))
    /\ \A j \in (s + 1)..(e - 1) :
          ~IsStartLine(lines[j]) /\ ~IsEndLineFor(lines[j], StartMatch(lines[s]))

\* the text of lines a..b joined by newlines
RECURSIVE JoinLines(_, _, _)
JoinLines(lines, a, b) ==
    IF a > b THEN <<>>
    ELSE IF a = b THEN lines[a]
    ELSE lines[a] \o <<Newline>> \o JoinLines(lines, a + 1, b)

RecordOf(filePath, lines, s, e) ==
    [filePath |-> filePath, codeStartLine |-> s, codeEndLine |-> e,
     codeContents |-> Trim(JoinLines(lines, s + 1, e - 1)),
     tagName |-> StartMatch(lines[s])]

\* the records of the closing lines from line e on, in line order
RECURSIVE RecordsFrom(_, _, _)
RecordsFrom(filePath, lines, e) ==
    IF e > Len(lines) THEN <<>>
    ELSE LET from == {s \in 1..(e - 1) : Closes(lines, s, e)}
         IN  (IF from = {} THEN <<>>
              ELSE <<RecordOf(filePath, lines, Max(from), e)>>)
             \o RecordsFrom(filePath, lines, e + 1)

\* the scanner's state after the first n lines
RECURSIVE ScanAfter(_, _, _)
ScanAfter(filePath, lines, n) ==
    IF n = 0 THEN [currentTag |-> EmptyTag, docTags |-> <<>>]
    ELSE ScanLine(filePath, ScanAfter(filePath, lines, n - 1), lines[n], n)

\* the START line whose tag is open after line n, 0 for none: the last
\* START line up to n, unless a later line up to n closes it
OpenAfter(lines, n) ==
    LET starts == {s \in 1..n : IsStartLine(lines[s])}
    IN  IF starts = {} THEN 0
        ELSE IF \E e \in (Max(starts) + 1)..n : Closes(lines, Max(starts), e)
        THEN 0
        ELSE Max(starts)

\* C12: processFile keeps one open tag.  Over every sequence of lines, a
\* record is pushed at line e exactly when e is an END line for the name
\* of the tag then open; the record starts at the last START line, ends at
\* e and holds the trimmed, newline-joined text of the lines strictly
\* between (END lines for other names included).  A START line replaces
\* an open tag, which gets no record and no error.  After a record the
\* slot is empty, lines met with the slot empty change nothing, and
\* records do not overlap and come in line order.  The call returns the
\* records pushed, or fails exactly when a tag is open at the end, naming
\* that tag's START line.
C12_SingleSlotScanner ==
    spc = "done" =>
        LET lines    == fileLines
            expected == RecordsFrom(PathAJs, lines, 1)
        IN  /\ \A n \in 1..Len(lines) :
                  LET before == ScanAfter(PathAJs, lines, n - 1)
                      after  == ScanAfter(PathAJs, lines, n)
                      closed == \E s \in 1..(n - 1) : Closes(lines, s, n)
                  IN  /\ Len(after.docTags) = Len(before.docTags) + (IF closed THEN 1 ELSE 0)
                      /\ closed <=> /\ before.currentTag.tagName # ""
                                    /\ IsEndLineFor(lines[n], before.currentTag.tagName)
                      /\ closed => after.currentTag = EmptyTag
                      /\ after.currentTag.codeStartLine = OpenAfter(lines, n)
                      /\ IsStartLine(lines[n]) =>
                            /\ after.docTags = before.docTags
                            /\ after.currentTag.tagName = StartMatch(lines[n])
                      /\ (before.currentTag = EmptyTag /\ ~IsStartLine(lines[n]))
                            => after = before
            /\ ScanAfter(PathAJs, lines, Len(lines)).docTags = expected
            /\ \A r \in 1..Len(expected) :
                  /\ expected[r].codeStartLine < expected[r].codeEndLine
                  /\ r < Len(expected) =>
                        expected[r].codeEndLine < expected[r + 1].codeStartLine
            /\ IF OpenAfter(lines, Len(lines)) # 0
               THEN scanResult = ScanThrown(OpenAfter(lines, Len(lines)))
               ELSE scanResult = ScanReturned(expected)

\* C12 witness: in START A, START B, END A, END B the tag A is replaced,
\* END A is content of B, and the one record is B over lines 2 to 4.
C12_Witness ==
    /\ spc = "done"
    /\ fileLines = << <<StartOf("A")>>, <<StartOf("B")>>, <<EndOf("A")>>, <<EndOf("B")>> >>
    /\ scanResult = ScanReturned(<< [filePath |-> PathAJs, codeStartLine |-> 2,
                                     codeEndLine |-> 4,
                                     codeContents |-> <<EndOf("A")>>,
                                     tagName |-> "B"] >>)

----------------------------------------------------------------------------
(* Claims about run().                                                     *)

\* no piece of the extensions input names an extension
NoExtensions ==
    \A k \in 1..Len(Split(extensionsInput, ",")) :
        Split(extensionsInput, ",")[k] = <<>>

\* C9 (as claimed): when no base reference is available, or the extensions
\* input yields no extension (the empty input), run() is marked failed and
\* neither an extraction, nor the checkout, nor the diff, nor a report is
\* ever executed.
C9_ConfigErrorBeforeExtraction ==
    (pc # "idle" /\ (GetBaseRef = "" \/ NoExtensions)) =>
        /\ trace = <<>>
        /\ reported = <<>>
        /\ pc = "done" => failed # ""

IsPrefix(a, b) == Len(a) <= Len(b) /\ a = SubSeq(b, 1, Len(a))

StepsBeforeReport ==
    <<"extractDocTags", "git fetch", "git checkout", "git pull",
      "extractDocTags", "findDocTagDiffs">>

\* a base reference is available and the extensions input names extensions
ConfigOk == GetBaseRef # "" /\ ~NoExtensions

\* a tag is still open at the end of the file: after the last line with a
\* START marker no line closes that tag
OpenAtEndOfFile(lines) ==
    \E i \in 1..Len(lines) :
        /\ StartMatch(lines[i]) # ""
        /\ \A j \in (i + 1)..Len(lines) :
              /\ StartMatch(lines[j]) = ""
              /\ EndMatch(lines[j]) # StartMatch(lines[i])

\* the files of a tree that the extractions of this run scan
ScannedIn(tree) ==
    CHOOSE files \in FindFilesInDirectory(tree, Split(extensionsInput, ",")) : TRUE

\* the tag lists an extraction of the tree can return, one per file order
ExtractionsOf(tree) ==
    {ExtractDocTags(Cwd, files).docTags :
        files \in FindFilesInDirectory(tree, Split(extensionsInput, ","))}

OpenAtEndIn(files) ==
    \E k \in 1..Len(files) : OpenAtEndOfFile(files[k].lines)

\* some file holds a START marker with no END marker for its name after it
UnterminatedIn(files) ==
    \E k \in 1..Len(files) : HasUnclosedStart(files[k].lines)

GitCommands == {"git fetch", "git checkout", "git pull"}

\* the errors an extraction throws: processFile's, and the read of a
\* directory the glob returned
ExtractionErrors == {"Missing end tag", "EISDIR"}

\* What holds of run() when a failure is a step that throws: the steps come
\* in the order extract, fetch, checkout, pull, extract, diff, report, and
\* the diff gets the base tags as old and the current tags as new.  A
\* failed step is the last step: the run is over and marked failed,
\* nothing was reported, and a failed extraction left no tag list.  A tag
\* still open at the end of any scanned file of the current tree fails the
\* first extraction, whichever file it is in and in whatever order the
\* files come; a failing git command fails the run at that command; a tag
\* still open at the end of any scanned file of the base tree fails the
\* second extraction, before the diff.
RunStopsAtFirstFailure ==
    /\ \/ IsPrefix(trace, StepsBeforeReport \o <<"console.dir">>)
       \/ IsPrefix(trace, StepsBeforeReport \o <<"annotatePR", "commentOnPr">>)
    /\ failed # "" => (pc = "done" /\ reported = <<>> /\ docTagDiffs = <<>>)
    /\ failed \in ExtractionErrors =>
          /\ trace \in {SubSeq(StepsBeforeReport, 1, 1), SubSeq(StepsBeforeReport, 1, 5)}
          /\ Len(trace) = 1 => currentTags = <<>>
          /\ baseRefTags = <<>>
    /\ failed = "exec failed" =>
          /\ Len(trace) \in 2..4
          /\ trace[Len(trace)] \in GitCommands
          /\ baseRefTags = <<>>
    /\ (ConfigOk /\ OpenAtEndIn(ScannedIn(currentFiles)) /\ Len(trace) >= 1)
          => (trace = <<"extractDocTags">> /\ failed \in ExtractionErrors)
    /\ (ConfigOk /\ OpenAtEndIn(ScannedIn(baseFiles)) /\ Len(trace) >= 5)
          => (Len(trace) = 5 /\ failed \in ExtractionErrors)
    /\ Len(trace) >= 6 =>
          /\ head = "base" /\ dpc = "done"
          /\ oldTags = baseRefTags /\ baseRefTags \in ExtractionsOf(baseFiles)
          /\ newTags = currentTags /\ currentTags \in ExtractionsOf(currentFiles)
    /\ Len(trace) < 6 => dpc = "idle"
    /\ (pc = "done" /\ failed = "") => Len(trace) >= 7

\* C10 (as claimed): the steps of run() come in the order extract, fetch,
\* checkout, pull, extract, diff, report; a failed run is over and has
\* reported nothing; in a run with a valid configuration an unterminated
\* tag in any scanned file of the current tree ends the run at the first
\* extraction, marked failed, and one in any scanned file of the base tree
\* ends it
\* at the second extraction, before the diff.
C10_FailureStopsRun ==
    /\ \/ IsPrefix(trace, StepsBeforeReport \o <<"console.dir">>)
       \/ IsPrefix(trace, StepsBeforeReport \o <<"annotatePR", "commentOnPr">>)
    /\ failed # "" => (pc = "done" /\ reported = <<>>)
    /\ (ConfigOk /\ UnterminatedIn(ScannedIn(currentFiles)) /\ Len(trace) >= 1)
          => (trace = <<"extractDocTags">> /\ pc = "done" /\ failed # "")
    /\ (ConfigOk /\ UnterminatedIn(ScannedIn(baseFiles)) /\ Len(trace) >= 5)
          => (Len(trace) = 5 /\ pc = "done" /\ failed # "")

=============================================================================
